---- MODULE Spec2Model ----
(***************************************************************************)
(* A model of the Notion Explorer MCP server (src/main.py): the credential *)
(* check, the four tools with their HTTP calls and suspension points, the  *)
(* block renderer and the database property extraction.                    *)
(*                                                                         *)
(* JSON values are tagged records [t, v]; an object is the sequence of its *)
(* <<key, value>> pairs in document order (Python dicts keep that order).  *)
(* An operation that may raise is a pair of operators: X_raises(..) says   *)
(* whether the Python code raises, X(..) is its value when it does not.    *)
(***************************************************************************)
EXTENDS Integers, Sequences, FiniteSets, TLC

VARIABLES
    environ,        \* os.environ's NOTION_API_KEY (None when unset)
    NOTION_API_KEY, \* the module-level global written by check_api_key
    pc,             \* per invocation: where the coroutine is suspended
    tool,           \* per invocation: the tool that was called
    local,          \* per invocation: locals kept across an await
    events,         \* per invocation: what it did, in order
    input,          \* the argument of the pure function under check
    result          \* what the pure function did with it

vars == <<environ, NOTION_API_KEY, pc, tool, local, events, input, result>>

(***************************************************************************)
(* JSON values and the Python operations the code applies to them.         *)
(***************************************************************************)
Null == [t |-> "null", v |-> "null"]
Absent == [t |-> "absent", v |-> "absent"]   \* a key that is not in the object
NotJSON == [t |-> "invalid", v |-> "invalid"] \* a body response.json() cannot parse
Str(s) == [t |-> "str", v |-> s]
Num(n) == [t |-> "num", v |-> n]
Bool(b) == [t |-> "bool", v |-> b]
List(s) == [t |-> "list", v |-> s]
Obj(pairs) == [t |-> "obj", v |-> pairs]
EmptyList == List(<<>>)
EmptyObj == Obj(<<>>)

\* One optional member of an object under construction.
Opt(k, x) == IF x = Absent THEN <<>> ELSE << <<k, x>> >>

\* Python truthiness: `if x`, `not x`, `x or y`.
Truthy(x) ==
    CASE x.t = "null" -> FALSE
      [] x.t = "bool" -> x.v
      [] x.t = "num" -> x.v # 0
      [] x.t = "str" -> x.v # ""
      [] OTHER -> Len(x.v) > 0

IsDict(x) == x.t = "obj"

\* `k in d` for a dict d and a string k.
Has(d, k) == \E j \in 1..Len(d.v) : d.v[j][1] = k

\* d[k] for a key that is there.
Item(d, k) == d.v[CHOOSE j \in 1..Len(d.v) : d.v[j][1] = k][2]

\* d.get(k, default); raises AttributeError when d is no dict (get_raises).
get_raises(d) == ~IsDict(d)
get(d, k, default) == IF Has(d, k) THEN Item(d, k) ELSE default

RECURSIVE JoinStr(_, _)
\* sep.join(parts) for a sequence of TLA+ strings.
JoinStr(parts, sep) ==
    IF Len(parts) = 0 THEN ""
    ELSE IF Len(parts) = 1 THEN parts[1]
    ELSE parts[1] \o sep \o JoinStr(Tail(parts), sep)

RECURSIVE Repr(_)
\* What an f-string's {x} writes for a container (str(x) is repr(x) there);
\* a string inside a container is quoted.
Repr(x) ==
    CASE x.t = "str" -> "'" \o x.v \o "'"
      [] x.t = "null" -> "None"
      [] x.t = "bool" -> IF x.v THEN "True" ELSE "False"
      [] x.t = "num" -> ToString(x.v)
      [] x.t = "list" ->
            "[" \o JoinStr([j \in 1..Len(x.v) |-> Repr(x.v[j])], ", ") \o "]"
      [] OTHER ->
            "{" \o JoinStr([j \in 1..Len(x.v) |->
                        "'" \o x.v[j][1] \o "': " \o Repr(x.v[j][2])], ", ") \o "}"

\* What an f-string's {x} writes: str(x).
Fmt(x) == IF x.t = "str" THEN x.v ELSE Repr(x)

\* sep.join([part.get(key, "") for part in parts]): iterating parts raises
\* for None, a number or a boolean; a non-dict item has no .get (the
\* characters of a string, the keys of a dict); join takes strings only.
join_field_raises(parts, key) ==
    \/ parts.t \in {"null", "num", "bool"}
    \/ parts.t = "str" /\ parts.v # ""
    \/ parts.t = "obj" /\ Len(parts.v) > 0
    \/ /\ parts.t = "list"
       /\ \E j \in 1..Len(parts.v) :
            \/ ~IsDict(parts.v[j])
            \/ get(parts.v[j], key, Str("")).t # "str"

join_field(parts, key, sep) ==
    IF parts.t # "list" THEN ""
    ELSE JoinStr([j \in 1..Len(parts.v) |-> get(parts.v[j], key, Str("")).v], sep)

\* "".join([part.get("plain_text", "") for part in parts])
join_plain_text_raises(parts) == join_field_raises(parts, "plain_text")
join_plain_text(parts) == join_field(parts, "plain_text", "")

\* `k in x` for a string k: a dict's keys, a list's members, a substring of a
\* string; None, numbers and booleans are not containers (in_raises).
in_raises(x) == x.t \in {"null", "num", "bool"}
In(k, x) ==
    CASE x.t = "obj" -> Has(x, k)
      [] x.t = "list" -> \E j \in 1..Len(x.v) : x.v[j] = Str(k)
      [] x.t = "str" ->
            \E j \in 1..(Len(x.v) - Len(k) + 1) : SubSeq(x.v, j, j + Len(k) - 1) = k
      [] OTHER -> FALSE

\* `for item in xs` where every item is then used as a dict: the loop body
\* raises on the first item that is none (the characters of a string, the
\* keys of a dict, a list's non-dict members); None, numbers and booleans
\* cannot be iterated.
each_dict_raises(xs) ==
    \/ xs.t \in {"null", "num", "bool"}
    \/ xs.t = "str" /\ xs.v # ""
    \/ xs.t = "obj" /\ Len(xs.v) > 0
    \/ xs.t = "list" /\ \E j \in 1..Len(xs.v) : ~IsDict(xs.v[j])

\* The items of `for item in xs` when it does not raise.
Items(xs) == IF xs.t = "list" THEN xs.v ELSE <<>>

Min(a, b) == IF a <= b THEN a ELSE b

(***************************************************************************)
(* The credential: check_api_key and get_headers.                          *)
(***************************************************************************)
NOTION_VERSION == "2022-06-28"

CredentialMessage ==
    "NOTION_API_KEY environment variable is not set. Please set it before making API calls."

CredentialError == "ValueError: NOTION_API_KEY environment variable is not set"

\* A slip: `if NOTION_API_KEY is None`, which lets the empty string through.
KeyIsNone(key) == key = Null

\* `if not NOTION_API_KEY`: None and the empty string both count as not set.
KeyMissing(key) == ~Truthy(key)

\* What check_api_key(ctx) adds to the invocation's events once it has read
\* `key` from the environment: nothing, or ctx.error(..) and then the raise.
check_api_key(key) ==
    << [kind |-> "check", key |-> key] >> \o
    IF KeyMissing(key)
    THEN << [kind |-> "ctx.error", message |-> CredentialMessage],
            [kind |-> "raise", error |-> CredentialError] >>
    ELSE <<>>

\* get_headers() when the global holds `key`.
get_headers(key) ==
    Obj(<< <<"Authorization", Str("Bearer " \o Fmt(key))>>,
           <<"Content-Type", Str("application/json")>>,
           <<"Notion-Version", Str(NOTION_VERSION)>> >>)

(***************************************************************************)
(* format_block.  The glyphs of the source are written in ASCII here:      *)
(* U+2022 bullet, U+2713 check mark, U+2610 ballot box, U+25B6 triangle,   *)
(* and the code fence of three U+0060 grave accents.                       *)
(***************************************************************************)
Bullet == "(U+2022)"
CheckMark == "(U+2713)"
BallotBox == "(U+2610)"
Triangle == "(U+25B6)"
Fence == "(U+0060 U+0060 U+0060)"

ChildrenNote == "[This block has child blocks that aren't displayed here]"

RichTextTypes ==
    {"paragraph", "heading_1", "heading_2", "heading_3", "bulleted_list_item",
     "numbered_list_item", "to_do", "toggle", "code", "callout", "quote"}

RECURSIVE indent_str(_)
\* "  " * indent
indent_str(indent) == IF indent <= 0 THEN "" ELSE "  " \o indent_str(indent - 1)

\* `not block_type or block_type not in block`: the early return. (A list or
\* dict as block_type is unhashable: see format_block_raises.)
Unsupported(block, block_type) ==
    \/ ~Truthy(block_type)
    \/ ~(block_type.t = "str" /\ Has(block, block_type.v))

\* content.get("icon", {}).get("emoji", ""): the second .get is applied to
\* whatever the icon is.
callout_emoji_raises(content) == get_raises(get(content, "icon", EmptyObj))
callout_emoji(content) == get(get(content, "icon", EmptyObj), "emoji", Str(""))

\* The image's url: content["file"].get("url", "") if "file" in content,
\* else the same for "external", else "".
image_url_raises(content) ==
    IF Has(content, "file") THEN get_raises(Item(content, "file"))
    ELSE IF Has(content, "external") THEN get_raises(Item(content, "external"))
    ELSE FALSE

image_url(content) ==
    IF Has(content, "file") THEN get(Item(content, "file"), "url", Str(""))
    ELSE IF Has(content, "external") THEN get(Item(content, "external"), "url", Str(""))
    ELSE Str("")

\* Whether the branch of block_type raises on `content`.
branch_raises(block_type, content) ==
    CASE block_type \in RichTextTypes ->
            \/ get_raises(content)
            \/ join_plain_text_raises(get(content, "rich_text", EmptyList))
            \/ block_type = "callout" /\ callout_emoji_raises(content)
      [] block_type = "image" ->
            \/ get_raises(content)
            \/ join_plain_text_raises(get(content, "caption", EmptyList))
            \/ image_url_raises(content)
      [] OTHER -> FALSE

\* The one entry the branch of block_type appends to `result`.
branch_line(block_type, content, ind) ==
    LET text == join_plain_text(get(content, "rich_text", EmptyList))
        caption == join_plain_text(get(content, "caption", EmptyList))
    IN CASE block_type = "paragraph" -> ind \o text
         [] block_type = "heading_1" -> ind \o "# " \o text
         [] block_type = "heading_2" -> ind \o "## " \o text
         [] block_type = "heading_3" -> ind \o "### " \o text
         [] block_type = "bulleted_list_item" -> ind \o Bullet \o " " \o text
         [] block_type = "numbered_list_item" -> ind \o "1. " \o text
         [] block_type = "to_do" ->
                ind \o (IF Truthy(get(content, "checked", Bool(FALSE)))
                        THEN CheckMark ELSE BallotBox) \o " " \o text
         [] block_type = "toggle" -> ind \o Triangle \o " " \o text
         [] block_type = "code" ->
                ind \o Fence \o Fmt(get(content, "language", Str(""))) \o "\n"
                    \o ind \o text \o "\n" \o ind \o Fence
         [] block_type = "image" ->
                ind \o "[Image" \o (IF caption # "" THEN " - " \o caption ELSE "")
                    \o "](" \o Fmt(image_url(content)) \o ")"
         [] block_type = "divider" -> ind \o "---"
         [] block_type = "callout" ->
                ind \o Fmt(callout_emoji(content)) \o " | " \o text
         [] block_type = "quote" -> ind \o "> " \o text
         [] block_type = "table" -> ind \o "[Table - use get_table_content to view]"
         [] OTHER -> ind \o "[" \o block_type \o " block]"

\* A slip: `if has_children is not None`, which also takes False.
children_lines_unless_none(has_children, ind) ==
    IF has_children # Null THEN << ind \o ChildrenNote >> ELSE <<>>

\* `if has_children:` what is appended after the branch's entry.
children_lines(has_children, ind) ==
    IF Truthy(has_children) THEN << ind \o ChildrenNote >> ELSE <<>>

format_block_raises(block, indent) ==
    \/ get_raises(block)
    \/ LET block_type == get(block, "type", Null)
       IN \/ Truthy(block_type) /\ block_type.t \in {"list", "obj"}
          \/ /\ ~Unsupported(block, block_type)
             /\ branch_raises(block_type.v, Item(block, block_type.v))

format_block(block, indent) ==
    LET block_type == get(block, "type", Null)
        has_children == get(block, "has_children", Bool(FALSE))
        ind == indent_str(indent)
    IN IF Unsupported(block, block_type)
       THEN ind \o "[Unsupported block type: " \o Fmt(block_type) \o "]"
       ELSE JoinStr(<< branch_line(block_type.v, Item(block, block_type.v), ind) >>
                        \o children_lines(has_children, ind), "\n")

(***************************************************************************)
(* search_notion_pages: the payload and the listing.                       *)
(***************************************************************************)
MaxPageSize == 100

\* A slip: max for min.
clamp_with_max(page_size) == IF page_size >= MaxPageSize THEN page_size ELSE MaxPageSize

\* min(100, page_size)
clamp_page_size(page_size) == Min(MaxPageSize, page_size)

\* A slip: `if filter_type:`, without the membership test.
filter_given(filter_type) == Truthy(filter_type)

\* `filter_type and filter_type in ["page", "database"]`
filter_accepted(filter_type) ==
    Truthy(filter_type) /\ filter_type \in {Str("page"), Str("database")}

SearchSort ==
    Obj(<< <<"direction", Str("descending")>>, <<"timestamp", Str("last_edited_time")>> >>)

search_payload(query, filter_type, page_size) ==
    Obj((IF Truthy(query) THEN << <<"query", query>> >> ELSE <<>>)
        \o (IF Truthy(page_size)
            THEN << <<"page_size", Num(clamp_page_size(page_size.v))>> >> ELSE <<>>)
        \o (IF filter_accepted(filter_type)
            THEN << <<"filter", Obj(<< <<"value", filter_type>>,
                                       <<"property", Str("object")>> >>)>> >>
            ELSE <<>>)
        \o << <<"sort", SearchSort>> >>)

\* `title_parts = x; if title_parts: title = "".join(..)`
title_of_raises(title_parts) ==
    Truthy(title_parts) /\ join_plain_text_raises(title_parts)
title_of(title_parts, default) ==
    IF Truthy(title_parts) THEN join_plain_text(title_parts) ELSE default

\* The title of one search hit.
item_title_raises(item) ==
    LET item_type == get(item, "object", Str("unknown"))
    IN CASE item_type = Str("page") ->
              IF Has(item, "properties")
              THEN LET props == Item(item, "properties")
                   IN \/ in_raises(props)
                      \/ /\ In("title", props)
                         /\ \/ ~IsDict(props)
                            \/ get_raises(Item(props, "title"))
                            \/ title_of_raises(get(Item(props, "title"), "title", EmptyList))
                      \/ /\ ~In("title", props)
                         /\ Has(item, "title")
                         /\ title_of_raises(Item(item, "title"))
              ELSE Has(item, "title") /\ title_of_raises(Item(item, "title"))
         [] item_type = Str("database") ->
              Has(item, "title") /\ title_of_raises(Item(item, "title"))
         [] OTHER -> FALSE

item_title(item) ==
    LET item_type == get(item, "object", Str("unknown"))
    IN CASE item_type = Str("page") ->
              IF Has(item, "properties") /\ In("title", Item(item, "properties"))
              THEN title_of(get(Item(Item(item, "properties"), "title"), "title", EmptyList),
                            "Untitled")
              ELSE IF Has(item, "title") THEN title_of(Item(item, "title"), "Untitled")
              ELSE "Untitled"
         [] item_type = Str("database") ->
              IF Has(item, "title") THEN title_of(Item(item, "title"), "Untitled")
              ELSE "Untitled"
         [] OTHER -> "Untitled"

search_item(item) ==
    "- " \o item_title(item) \o " (" \o Fmt(get(item, "object", Str("unknown"))) \o ")"
        \o "\n  ID: " \o Fmt(get(item, "id", Str("Unknown ID")))
        \o "\n  URL: " \o Fmt(get(item, "url", Str("No URL")))
        \o "\n  Last Edited: " \o Fmt(get(item, "last_edited_time", Str("Unknown")))

\* What search_notion_pages does with the parsed body of a 200 response.
search_output_raises(data) ==
    \/ get_raises(data)
    \/ LET results == get(data, "results", EmptyList)
       IN /\ Truthy(results)
          /\ \/ each_dict_raises(results)
             \/ \E j \in 1..Len(Items(results)) : item_title_raises(results.v[j])

search_output(data) ==
    LET results == get(data, "results", EmptyList)
    IN IF ~Truthy(results) THEN "No results found"
       ELSE JoinStr([j \in 1..Len(results.v) |-> search_item(results.v[j])], "\n\n")

(***************************************************************************)
(* get_page_content and get_block_children: the report.                    *)
(***************************************************************************)
RECURSIVE render_blocks_prepending(_, _)
\* A slip: output.insert(0, block_content) for output.append(block_content).
render_blocks_prepending(blocks, output) ==
    IF Len(blocks) = 0 THEN output
    ELSE LET block_content == format_block(Head(blocks), 0)
         IN render_blocks_prepending(Tail(blocks),
                                     IF block_content # "" THEN << block_content >> \o output
                                     ELSE output)

RECURSIVE render_blocks(_, _)
\* `for block in ..: block_content = await format_block(block);
\*  if block_content: output.append(block_content)`, from `output` on.
render_blocks(blocks, output) ==
    IF Len(blocks) = 0 THEN output
    ELSE LET block_content == format_block(Head(blocks), 0)
         IN render_blocks(Tail(blocks),
                          IF block_content # "" THEN Append(output, block_content)
                          ELSE output)

render_blocks_raises(results) ==
    \/ each_dict_raises(results)
    \/ \E j \in 1..Len(Items(results)) : format_block_raises(results.v[j], 0)

\* page_data["properties"].get("title") or page_data["properties"].get("Name")
title_prop(props) ==
    IF Truthy(get(props, "title", Null)) THEN get(props, "title", Null)
    ELSE get(props, "Name", Null)

page_title_raises(page_data) ==
    \/ in_raises(page_data)
    \/ /\ In("properties", page_data)
       /\ \/ ~IsDict(page_data)
          \/ get_raises(Item(page_data, "properties"))
          \/ LET tp == title_prop(Item(page_data, "properties"))
             IN /\ Truthy(tp)
                /\ \/ in_raises(tp)
                   \/ In("title", tp) /\ ~IsDict(tp)
                   \/ In("title", tp) /\ title_of_raises(Item(tp, "title"))

page_title(page_data) ==
    IF ~In("properties", page_data) THEN "Untitled"
    ELSE LET tp == title_prop(Item(page_data, "properties"))
         IN IF Truthy(tp) /\ In("title", tp)
            THEN title_of(Item(tp, "title"), "Untitled")
            ELSE "Untitled"

page_header(page_data) ==
    << "# " \o page_title(page_data),
       "Page ID: " \o Fmt(get(page_data, "id", Null)),
       "URL: " \o Fmt(get(page_data, "url", Null)),
       "Last Edited: " \o Fmt(get(page_data, "last_edited_time", Null)),
       "\n## Content:\n" >>

\* What get_page_content does with the two parsed bodies.
page_output_raises(page_data, blocks_data) ==
    \/ page_title_raises(page_data)
    \/ get_raises(page_data)
    \/ get_raises(blocks_data)
    \/ render_blocks_raises(get(blocks_data, "results", EmptyList))

page_output(page_data, blocks_data) ==
    JoinStr(render_blocks(Items(get(blocks_data, "results", EmptyList)),
                          page_header(page_data)), "\n")

\* What get_block_children does with the parsed body.
children_output_raises(data) ==
    \/ get_raises(data)
    \/ LET results == get(data, "results", EmptyList)
       IN Truthy(results) /\ render_blocks_raises(results)

children_output(data) ==
    LET results == get(data, "results", EmptyList)
    IN IF ~Truthy(results) THEN "This block has no children."
       ELSE JoinStr(render_blocks(results.v, <<>>), "\n")

(***************************************************************************)
(* get_database_content: the query payload, the schema and the entries.    *)
(***************************************************************************)
\* {"page_size": min(max_pages, 100)}
query_payload(max_pages) ==
    Obj(<< <<"page_size", Num(Min(max_pages, MaxPageSize))>> >>)

\* The branch of the if/elif chain that a property takes, "none" when no
\* condition holds and prop_value stays "N/A".
prop_branch(prop_data) ==
    LET prop_type == get(prop_data, "type", Str("unknown"))
        takes(ty) == prop_type = Str(ty) /\ Has(prop_data, ty)
    IN CASE takes("title") -> "title"
         [] takes("rich_text") -> "rich_text"
         [] takes("number") -> "number"
         [] takes("select") /\ Truthy(Item(prop_data, "select")) -> "select"
         [] takes("multi_select") -> "multi_select"
         [] takes("date") /\ Truthy(Item(prop_data, "date")) -> "date"
         [] takes("checkbox") -> "checkbox"
         [] takes("url") -> "url"
         [] takes("email") -> "email"
         [] takes("phone_number") -> "phone_number"
         [] OTHER -> "none"

prop_value_raises(prop_data) ==
    \/ get_raises(prop_data)
    \/ LET branch == prop_branch(prop_data)
       IN CASE branch \in {"title", "rich_text"} ->
                 join_plain_text_raises(Item(prop_data, branch))
            [] branch = "select" -> get_raises(Item(prop_data, "select"))
            [] branch = "multi_select" ->
                 join_field_raises(Item(prop_data, "multi_select"), "name")
            [] branch = "date" ->
                 LET date_obj == Item(prop_data, "date")
                 IN \/ get_raises(date_obj)
                    \/ /\ Truthy(get(date_obj, "end", Str("")))
                       /\ get(date_obj, "start", Str("")).t # "str"
            [] OTHER -> FALSE

\* str(prop_value) as the f-string of the property's line writes it.
prop_value(prop_data) ==
    LET branch == prop_branch(prop_data)
        or_na(x) == IF Truthy(x) THEN Fmt(x) ELSE "N/A"
    IN CASE branch \in {"title", "rich_text"} ->
              join_plain_text(Item(prop_data, branch))
         [] branch = "number" -> Fmt(Item(prop_data, "number"))
         [] branch = "select" -> Fmt(get(Item(prop_data, "select"), "name", Str("")))
         [] branch = "multi_select" ->
              join_field(Item(prop_data, "multi_select"), "name", ", ")
         [] branch = "date" ->
              LET date_obj == Item(prop_data, "date")
                  start == get(date_obj, "start", Str(""))
                  end == get(date_obj, "end", Str(""))
              IN IF Truthy(end) THEN start.v \o " to " \o Fmt(end) ELSE Fmt(start)
         [] branch = "checkbox" ->
              IF Truthy(Item(prop_data, "checkbox")) THEN CheckMark ELSE BallotBox
         [] branch \in {"url", "email", "phone_number"} -> or_na(Item(prop_data, branch))
         [] OTHER -> "N/A"

\* The lines of one entry: "### Entry i", its id and url, one per property.
entry_lines_raises(entry) ==
    \/ get_raises(entry)
    \/ LET properties == get(entry, "properties", EmptyObj)
       IN \/ get_raises(properties)
          \/ \E j \in 1..Len(properties.v) : prop_value_raises(properties.v[j][2])

entry_lines(entry, i) ==
    LET properties == get(entry, "properties", EmptyObj)
    IN << "\n### Entry " \o ToString(i),
          "ID: " \o Fmt(get(entry, "id", Null)),
          "URL: " \o Fmt(get(entry, "url", Null)) >>
       \o [j \in 1..Len(properties.v) |->
              "- " \o properties.v[j][1] \o ": " \o prop_value(properties.v[j][2])]

RECURSIVE ConcatAll(_)
\* The concatenation of a sequence of sequences.
ConcatAll(seqs) == IF Len(seqs) = 0 THEN <<>> ELSE Head(seqs) \o ConcatAll(Tail(seqs))

database_header_raises(db_data) ==
    \/ in_raises(db_data)
    \/ In("title", db_data) /\ ~IsDict(db_data)
    \/ In("title", db_data) /\ title_of_raises(Item(db_data, "title"))
    \/ get_raises(db_data)
    \/ LET schema == get(db_data, "properties", EmptyObj)
       IN \/ get_raises(schema)
          \/ \E j \in 1..Len(schema.v) : get_raises(schema.v[j][2])

database_header(db_data) ==
    LET schema == get(db_data, "properties", EmptyObj)
    IN << "# " \o (IF Has(db_data, "title")
                   THEN title_of(Item(db_data, "title"), "Untitled Database")
                   ELSE "Untitled Database"),
          "Database ID: " \o Fmt(get(db_data, "id", Null)),
          "URL: " \o Fmt(get(db_data, "url", Null)),
          "\n## Database Schema:" >>
       \o [j \in 1..Len(schema.v) |->
              "- " \o schema.v[j][1] \o ": "
                   \o Fmt(get(schema.v[j][2], "type", Str("unknown")))]

\* len(entries), for which a string counts its characters and a dict its keys.
entries_len(entries) == Len(entries.v)

\* What get_database_content does with the two parsed bodies.
database_output_raises(db_data, query_data) ==
    \/ database_header_raises(db_data)
    \/ get_raises(query_data)
    \/ LET entries == get(query_data, "results", EmptyList)
       IN \/ each_dict_raises(entries)
          \/ \E j \in 1..Len(Items(entries)) : entry_lines_raises(entries.v[j])

database_output(db_data, query_data) ==
    LET entries == get(query_data, "results", EmptyList)
    IN JoinStr(database_header(db_data)
               \o << "\n## Database Entries (" \o ToString(entries_len(entries)) \o "):" >>
               \o ConcatAll([j \in 1..Len(Items(entries)) |-> entry_lines(entries.v[j], j)]),
               "\n")

(***************************************************************************)
(* The state machine's idle parts: a specification of one part holds the   *)
(* other part's variables still.                                           *)
(***************************************************************************)
Invocations == {"inv1", "inv2"}

Pending == [state |-> "pending", value |-> ""]
Returned(s) == [state |-> "returned", value |-> s]
Raised(e) == [state |-> "raised", value |-> e]

ToolsIdle ==
    /\ environ = Null
    /\ NOTION_API_KEY = Null
    /\ pc = [i \in Invocations |-> "idle"]
    /\ tool = [i \in Invocations |-> "none"]
    /\ local = [i \in Invocations |-> Null]
    /\ events = [i \in Invocations |-> <<>>]

toolVars == <<environ, NOTION_API_KEY, pc, tool, local, events>>

(***************************************************************************)
(* The tools as coroutines.  A tool runs from its call to its first await  *)
(* of the network in one step (check_api_key and get_headers do not        *)
(* suspend), and from each response to the next await or to its end in     *)
(* one step; other invocations and changes of the environment interleave   *)
(* at the awaits.  logger.info("get_page_content", page_id) changes        *)
(* nothing the tools read and is left out.                                 *)
(***************************************************************************)
ApiBase == "https://api.notion.com/v1"

Request(method, url, key, json) ==
    [kind |-> "http", method |-> method, url |-> url,
     headers |-> get_headers(key), json |-> json]

Call(t, args) == [kind |-> "call", tool |-> t, args |-> args]
Response(r) == [kind |-> "response", status |-> r.status, text |-> r.text]
Return(s) == [kind |-> "return", value |-> s]
Raise(e) == [kind |-> "raise", error |-> e]

\* A slip: `response.status_code >= 500`, which lets client errors through.
status_server_error(r) == r.status >= 500

\* `response.status_code != 200`
status_failed(r) == r.status # 200

\* f"<prefix>{response.status_code} - {response.text}"
error_string(prefix, r) == prefix \o ToString(r.status) \o " - " \o r.text

\* response.json() raises on a body that is not JSON.
json_raises(r) == r.body = NotJSON

Ended(ev) == Len(ev) > 0 /\ ev[Len(ev)].kind \in {"raise", "return"}

\* The call of tool t with `args`: check_api_key, then the first request with
\* the headers built from the global the check has just written; `keep` are
\* the locals the coroutine needs after the await.
Begin(i, t, args, method, url, json, keep) ==
    /\ pc[i] = "idle"
    /\ NOTION_API_KEY' = environ
    /\ tool' = [tool EXCEPT ![i] = t]
    /\ LET checked == check_api_key(environ)
       IN IF Ended(checked)
          THEN /\ events' = [events EXCEPT ![i] = << Call(t, args) >> \o checked]
               /\ pc' = [pc EXCEPT ![i] = "done"]
               /\ local' = local
          ELSE /\ events' = [events EXCEPT ![i] =
                                << Call(t, args) >> \o checked
                                \o << Request(method, url, NOTION_API_KEY', json) >>]
               /\ pc' = [pc EXCEPT ![i] = t \o ":1"]
               /\ local' = [local EXCEPT ![i] = keep]
    /\ UNCHANGED <<environ, input, result>>

\* A response arrives for the request the invocation awaits at `at`, and
\* the invocation runs on: `did` are the events that follow the response.
Resume(i, at, r, did, next, keep) ==
    /\ pc[i] = at
    /\ events' = [events EXCEPT ![i] = @ \o << Response(r) >> \o did]
    /\ pc' = [pc EXCEPT ![i] = IF Ended(did) THEN "done" ELSE next]
    /\ local' = [local EXCEPT ![i] = IF Ended(did) THEN Null ELSE keep]
    /\ UNCHANGED <<environ, NOTION_API_KEY, tool, input, result>>

\* ---- search_notion_pages
search_notion_pages(i, query, filter_type, page_size) ==
    Begin(i, "search_notion_pages",
          [query |-> query, filter_type |-> filter_type, page_size |-> page_size],
          "POST", ApiBase \o "/search",
          search_payload(query, filter_type, page_size), Null)

\* After `await client.post(..)`: print(response.json()), then the status.
search_notion_pages_did(r) ==
    IF json_raises(r) THEN << Raise("JSONDecodeError") >>
    ELSE IF status_failed(r) THEN << Return(error_string("Error: ", r)) >>
    ELSE IF search_output_raises(r.body) THEN << Raise("Error") >>
    ELSE << Return(search_output(r.body)) >>

search_notion_pages_resume(i, r) ==
    Resume(i, "search_notion_pages:1", r, search_notion_pages_did(r), "done", Null)

\* ---- get_page_content
get_page_content(i, page_id) ==
    Begin(i, "get_page_content", [page_id |-> page_id],
          "GET", ApiBase \o "/pages/" \o page_id, Absent, Str(page_id))

\* After the metadata response: the error string, or page_data and the
\* request for the blocks, with the headers get_headers() builds then.
get_page_content_did1(r, page_id, key) ==
    IF status_failed(r) THEN << Return(error_string("Error retrieving page: ", r)) >>
    ELSE IF json_raises(r) THEN << Raise("JSONDecodeError") >>
    ELSE << Request("GET", ApiBase \o "/blocks/" \o page_id \o "/children", key, Absent) >>

get_page_content_resume1(i, r) ==
    Resume(i, "get_page_content:1", r,
           get_page_content_did1(r, local[i].v, NOTION_API_KEY),
           "get_page_content:2", r.body)

get_page_content_did2(r, page_data) ==
    IF status_failed(r)
    THEN << Return(error_string("Error retrieving page content: ", r)) >>
    ELSE IF json_raises(r) THEN << Raise("JSONDecodeError") >>
    ELSE IF page_output_raises(page_data, r.body) THEN << Raise("Error") >>
    ELSE << Return(page_output(page_data, r.body)) >>

get_page_content_resume2(i, r) ==
    Resume(i, "get_page_content:2", r, get_page_content_did2(r, local[i]), "done", Null)

\* ---- get_database_content
get_database_content(i, database_id, max_pages) ==
    Begin(i, "get_database_content", [database_id |-> database_id, max_pages |-> max_pages],
          "GET", ApiBase \o "/databases/" \o database_id, Absent,
          [id |-> database_id, max_pages |-> max_pages])

get_database_content_did1(r, args, key) ==
    IF status_failed(r) THEN << Return(error_string("Error retrieving database: ", r)) >>
    ELSE IF json_raises(r) THEN << Raise("JSONDecodeError") >>
    ELSE << Request("POST", ApiBase \o "/databases/" \o args.id \o "/query", key,
                    query_payload(args.max_pages)) >>

get_database_content_resume1(i, r) ==
    Resume(i, "get_database_content:1", r,
           get_database_content_did1(r, local[i], NOTION_API_KEY),
           "get_database_content:2", r.body)

get_database_content_did2(r, db_data) ==
    IF status_failed(r) THEN << Return(error_string("Error querying database: ", r)) >>
    ELSE IF json_raises(r) THEN << Raise("JSONDecodeError") >>
    ELSE IF database_output_raises(db_data, r.body) THEN << Raise("Error") >>
    ELSE << Return(database_output(db_data, r.body)) >>

get_database_content_resume2(i, r) ==
    Resume(i, "get_database_content:2", r,
           get_database_content_did2(r, local[i]), "done", Null)

\* ---- get_block_children
get_block_children(i, block_id) ==
    Begin(i, "get_block_children", [block_id |-> block_id],
          "GET", ApiBase \o "/blocks/" \o block_id \o "/children", Absent, Null)

get_block_children_did(r) ==
    IF status_failed(r)
    THEN << Return(error_string("Error retrieving block children: ", r)) >>
    ELSE IF json_raises(r) THEN << Raise("JSONDecodeError") >>
    ELSE IF children_output_raises(r.body) THEN << Raise("Error") >>
    ELSE << Return(children_output(r.body)) >>

get_block_children_resume(i, r) ==
    Resume(i, "get_block_children:1", r, get_block_children_did(r), "done", Null)

\* ---- the environment: NOTION_API_KEY is set, changed or unset.
SetEnviron(value) ==
    /\ value # environ
    /\ environ' = value
    /\ UNCHANGED <<NOTION_API_KEY, pc, tool, local, events, input, result>>

(***************************************************************************)
(* What the network answers.  A response is its status, its text and the   *)
(* value response.json() parses from the text (NotJSON when it cannot).    *)
(***************************************************************************)
RECURSIVE ToJson(_)
\* The text of a JSON value, as the server writes it.
ToJson(x) ==
    CASE x.t = "str" -> "\"" \o x.v \o "\""
      [] x.t = "null" -> "null"
      [] x.t = "bool" -> IF x.v THEN "true" ELSE "false"
      [] x.t = "num" -> ToString(x.v)
      [] x.t = "list" ->
            "[" \o JoinStr([j \in 1..Len(x.v) |-> ToJson(x.v[j])], ", ") \o "]"
      [] OTHER ->
            "{" \o JoinStr([j \in 1..Len(x.v) |->
                        "\"" \o x.v[j][1] \o "\": " \o ToJson(x.v[j][2])], ", ") \o "}"

JsonBody(x) == [text |-> ToJson(x), body |-> x]
HtmlBody == [text |-> "<html>502 Bad Gateway</html>", body |-> NotJSON]
ErrorBody ==
    JsonBody(Obj(<< <<"object", Str("error")>>, <<"message", Str("Not found")>> >>))

Statuses == {200, 204, 404}

Title(s) == List(<< Obj(<< <<"plain_text", Str(s)>> >>) >>)
ResultList(items) == Obj(<< <<"object", Str("list")>>, <<"results", List(items)>> >>)

PageObject ==
    Obj(<< <<"object", Str("page")>>, <<"id", Str("p1")>>, <<"url", Str("http://n/p1")>>,
           <<"last_edited_time", Str("2024-01-01")>>,
           <<"properties", Obj(<< <<"title", Obj(<< <<"title", Title("Plan")>> >>)>> >>)>> >>)

DatabaseObject ==
    Obj(<< <<"object", Str("database")>>, <<"id", Str("d1")>>, <<"url", Str("http://n/d1")>>,
           <<"title", Title("Stock")>>,
           <<"properties", Obj(<< <<"Name", Obj(<< <<"type", Str("title")>> >>)>>,
                                  <<"Price", Obj(<< <<"type", Str("number")>> >>)>> >>)>> >>)

EntryObject ==
    Obj(<< <<"object", Str("page")>>, <<"id", Str("e1")>>, <<"url", Str("http://n/e1")>>,
           <<"properties",
             Obj(<< <<"Name", Obj(<< <<"type", Str("title")>>, <<"title", Title("Tea")>> >>)>>,
                    <<"Price", Obj(<< <<"type", Str("number")>>, <<"number", Num(5)>> >>)>> >>)>> >>)

ParagraphBlock ==
    Obj(<< <<"id", Str("b1")>>, <<"type", Str("paragraph")>>, <<"has_children", Bool(FALSE)>>,
           <<"paragraph", Obj(<< <<"rich_text", Title("Hello")>> >>)>> >>)

ToggleBlock ==
    Obj(<< <<"id", Str("b2")>>, <<"type", Str("toggle")>>, <<"has_children", Bool(TRUE)>>,
           <<"toggle", Obj(<< <<"rich_text", Title("More")>> >>)>> >>)

\* The bodies an endpoint answers with when it succeeds.
SuccessBodies(endpoint) ==
    CASE endpoint = "search" ->
            {JsonBody(ResultList(<<>>)), JsonBody(ResultList(<<PageObject, DatabaseObject>>))}
      [] endpoint = "page" -> {JsonBody(PageObject)}
      [] endpoint = "children" ->
            {JsonBody(ResultList(<<>>)), JsonBody(ResultList(<<ParagraphBlock, ToggleBlock>>))}
      [] endpoint = "database" -> {JsonBody(DatabaseObject)}
      [] OTHER -> {JsonBody(ResultList(<<EntryObject>>))}

Responses(endpoint) ==
    {[status |-> st, text |-> b.text, body |-> b.body] :
        st \in Statuses, b \in {HtmlBody, ErrorBody} \cup SuccessBodies(endpoint)}

SearchResponses == Responses("search")
PageResponses == Responses("page")
ChildrenResponses == Responses("children")
DatabaseResponses == Responses("database")
QueryResponses == Responses("query")

(***************************************************************************)
(* Spec: concurrent invocations of the four tools while the environment    *)
(* changes.                                                                *)
(***************************************************************************)
Environs == {Null, Str(""), Str("secret_A"), Str("secret_B")}

SearchArgs ==
    {[query |-> Null, filter_type |-> Null, page_size |-> Num(10)],
     [query |-> Str("plan"), filter_type |-> Str("page"), page_size |-> Num(500)]}

PureIdle == input = Null /\ result = Null

Init ==
    /\ environ \in Environs
    /\ NOTION_API_KEY = environ     \* module load: os.getenv("NOTION_API_KEY")
    /\ pc = [i \in Invocations |-> "idle"]
    /\ tool = [i \in Invocations |-> "none"]
    /\ local = [i \in Invocations |-> Null]
    /\ events = [i \in Invocations |-> <<>>]
    /\ PureIdle

Next ==
    \/ \E i \in Invocations :
        \/ \E a \in SearchArgs :
              search_notion_pages(i, a.query, a.filter_type, a.page_size)
        \/ \E r \in SearchResponses : search_notion_pages_resume(i, r)
        \/ get_page_content(i, "p1")
        \/ \E r \in PageResponses : get_page_content_resume1(i, r)
        \/ \E r \in ChildrenResponses : get_page_content_resume2(i, r)
        \/ get_database_content(i, "d1", 10)
        \/ \E r \in DatabaseResponses : get_database_content_resume1(i, r)
        \/ \E r \in QueryResponses : get_database_content_resume2(i, r)
        \/ get_block_children(i, "b0")
        \/ \E r \in ChildrenResponses : get_block_children_resume(i, r)
    \/ \E value \in Environs : SetEnviron(value)

Spec == Init /\ [][Next]_vars

(***************************************************************************)
(* SearchSpec: one invocation of search_notion_pages over a wide range of  *)
(* arguments.                                                              *)
(***************************************************************************)
MaxRequested == 101

Queries == {Null, Str(""), Str("plan")}
FilterTypes == {Null, Str(""), Str("page"), Str("database"), Str("block"), Str("Page")}
PageSizes == {Num(n) : n \in (-1..MaxRequested) \cup {500}}

SearchInit ==
    /\ environ \in Environs
    /\ NOTION_API_KEY = environ
    /\ pc = [i \in Invocations |-> "idle"]
    /\ tool = [i \in Invocations |-> "none"]
    /\ local = [i \in Invocations |-> Null]
    /\ events = [i \in Invocations |-> <<>>]
    /\ input \in [query : Queries, filter_type : FilterTypes, page_size : PageSizes]
    /\ result = Null

SearchNext ==
    \/ search_notion_pages("inv1", input.query, input.filter_type, input.page_size)
    \/ \E r \in SearchResponses : search_notion_pages_resume("inv1", r)

SearchSpec == SearchInit /\ [][SearchNext]_vars

(***************************************************************************)
(* Blocks as the API may return them: every block type of format_block,    *)
(* with each expected sub-field present, missing, or (the icon) null.      *)
(***************************************************************************)
MaxRuns == 2
MaxIndent == 1

RECURSIVE SeqsUpTo(_, _)
\* The sequences over S of length at most n.
SeqsUpTo(S, n) ==
    IF n = 0 THEN {<<>>}
    ELSE LET shorter == SeqsUpTo(S, n - 1)
         IN shorter \cup {Append(q, x) : q \in shorter, x \in S}

Run(s) == Obj(<< <<"type", Str("text")>>, <<"plain_text", Str(s)>> >>)
RunWithoutText == Obj(<< <<"type", Str("text")>> >>)
Runs == {Run("Buy"), Run(" milk"), RunWithoutText}

\* A rich_text or caption member: missing, or a list of runs.
RichTexts == {Absent} \cup {List(q) : q \in SeqsUpTo(Runs, MaxRuns)}

Checkeds == {Absent, Bool(TRUE), Bool(FALSE)}
Languages == {Absent, Str("python")}
Icons ==
    {Absent, Null,
     Obj(<< <<"type", Str("emoji")>>, <<"emoji", Str("!")>> >>),
     Obj(<< <<"type", Str("external")>> >>)}
Files == {Absent, EmptyObj, Obj(<< <<"url", Str("http://img")>> >>)}
HasChildrens == {Absent, Bool(TRUE), Bool(FALSE)}

PlainTextTypes == RichTextTypes \ {"to_do", "code", "callout"}
OtherTypes == {"divider", "table", "embed"}
BlockTypes == RichTextTypes \cup {"image"} \cup OtherTypes

\* The payloads a block of type ty may carry under its key.
Payloads(ty) ==
    CASE ty \in PlainTextTypes -> {Obj(Opt("rich_text", rt)) : rt \in RichTexts}
      [] ty = "to_do" ->
            {Obj(Opt("rich_text", rt) \o Opt("checked", c)) :
                rt \in RichTexts, c \in Checkeds}
      [] ty = "code" ->
            {Obj(Opt("rich_text", rt) \o Opt("language", l)) :
                rt \in RichTexts, l \in Languages}
      [] ty = "callout" ->
            {Obj(Opt("rich_text", rt) \o Opt("icon", ic)) :
                rt \in RichTexts, ic \in Icons}
      [] ty = "image" ->
            {Obj(Opt("caption", cap) \o Opt("file", f) \o Opt("external", e)) :
                cap \in {Absent, List(<<Run("Fig")>>)}, f \in Files, e \in Files}
      [] OTHER -> {EmptyObj}

Block(ty, has_children, key, content) ==
    Obj(<< <<"object", Str("block")>>, <<"id", Str("b1")>> >>
        \o Opt("type", ty) \o Opt("has_children", has_children) \o Opt(key, content))

Blocks ==
    UNION {
        {Block(Str(ty), hc, ty, c) : c \in Payloads(ty) \cup {Absent}}
            \cup {Block(ty0, hc, "paragraph", c) :
                    ty0 \in {Absent, Null, Str("")}, c \in {Absent, EmptyObj}}
        : ty \in BlockTypes, hc \in HasChildrens }

(***************************************************************************)
(* RenderSpec: format_block applied to one block.                          *)
(***************************************************************************)
RenderInit ==
    /\ ToolsIdle
    /\ input \in [block : Blocks, indent : 0..MaxIndent]
    /\ result = Pending

Render ==
    /\ result = Pending
    /\ result' = IF format_block_raises(input.block, input.indent)
                 THEN Raised("AttributeError")
                 ELSE Returned(format_block(input.block, input.indent))
    /\ UNCHANGED <<toolVars, input>>

RenderNext == Render

RenderSpec == RenderInit /\ [][RenderNext]_vars

(***************************************************************************)
(* BlocksSpec: get_page_content and get_block_children on a successful     *)
(* answer whose children are drawn from a few blocks, one of which renders *)
(* as the empty string.                                                    *)
(***************************************************************************)
MaxBlocks == 3

EmptyParagraph ==
    Obj(<< <<"id", Str("b3")>>, <<"type", Str("paragraph")>>, <<"has_children", Bool(FALSE)>>,
           <<"paragraph", Obj(<< <<"rich_text", EmptyList>> >>)>> >>)

CodeBlock ==
    Obj(<< <<"id", Str("b4")>>, <<"type", Str("code")>>, <<"has_children", Bool(FALSE)>>,
           <<"code", Obj(<< <<"rich_text", Title("print(1)")>>,
                            <<"language", Str("python")>> >>)>> >>)

SyncedBlock ==
    Obj(<< <<"id", Str("b5")>>, <<"type", Str("synced_block")>>,
           <<"has_children", Bool(TRUE)>> >>)

ChildBlocks == {ParagraphBlock, ToggleBlock, EmptyParagraph, CodeBlock, SyncedBlock}

BlocksInit ==
    /\ ToolsIdle
    /\ input \in [fn : {"get_page_content", "get_block_children"},
                  blocks : SeqsUpTo(ChildBlocks, MaxBlocks)]
    /\ result = Pending

\* get_page_content from the two 200 responses on.
PageReport ==
    /\ result = Pending
    /\ input.fn = "get_page_content"
    /\ LET did == get_page_content_did2(
                     [status |-> 200, text |-> "", body |-> ResultList(input.blocks)],
                     PageObject)
       IN result' = IF did[1].kind = "return" THEN Returned(did[1].value)
                    ELSE Raised(did[1].error)
    /\ UNCHANGED <<toolVars, input>>

\* get_block_children from the 200 response on.
ChildrenReport ==
    /\ result = Pending
    /\ input.fn = "get_block_children"
    /\ LET did == get_block_children_did(
                     [status |-> 200, text |-> "", body |-> ResultList(input.blocks)])
       IN result' = IF did[1].kind = "return" THEN Returned(did[1].value)
                    ELSE Raised(did[1].error)
    /\ UNCHANGED <<toolVars, input>>

BlocksNext == PageReport \/ ChildrenReport

BlocksSpec == BlocksInit /\ [][BlocksNext]_vars

(***************************************************************************)
(* DatabaseSpec: get_database_content on a successful answer; the last     *)
(* entry's properties are drawn from the values a property may hold.       *)
(***************************************************************************)
MaxProps == 2
MaxEntriesBefore == 1

Option(name) == Obj(<< <<"id", Str("o")>>, <<"name", Str(name)>> >>)

\* A property of type ty whose value is x (Absent: the value's key is missing).
Prop(ty, x) == Obj(<< <<"id", Str("x")>>, <<"type", Str(ty)>> >> \o Opt(ty, x))

\* The API gives null for an empty number, select, date, url, email or
\* phone_number; a title, rich_text or multi_select is always a list.
PropDatas ==
    {Prop("number", x) : x \in {Absent, Null, Num(5), Num(0), Num(-3)}}
    \cup {Prop("multi_select", x) :
            x \in {Absent, EmptyList, List(<<Option("A")>>),
                   List(<<Option("A"), Option("B")>>)}}
    \cup {Prop("date", x) :
            x \in {Absent, Null,
                   Obj(<< <<"start", Str("2024-01-01")>>, <<"end", Null>> >>),
                   Obj(<< <<"start", Str("2024-01-01")>> >>),
                   Obj(<< <<"start", Str("2024-01-01")>>, <<"end", Str("2024-01-05")>> >>)}}
    \cup {Prop(ty, x) : ty \in {"select", "url", "email", "phone_number"}, x \in {Absent, Null}}
    \cup {Prop(ty, Absent) : ty \in {"title", "rich_text"}}
    \cup {Prop("formula", Obj(<< <<"type", Str("number")>>, <<"number", Num(1)>> >>)),
          Obj(<< <<"id", Str("x")>> >>)}

PropNames == <<"P1", "P2", "P3", "P4">>

\* An entry whose properties are the members of props, named in order.
Entry(props) ==
    Obj(<< <<"object", Str("page")>>, <<"id", Str("e2")>>, <<"url", Str("http://n/e2")>>,
           <<"properties", Obj([j \in 1..Len(props) |-> <<PropNames[j], props[j]>>])>> >>)

DatabaseInit ==
    /\ ToolsIdle
    /\ input \in [before : 0..MaxEntriesBefore, props : SeqsUpTo(PropDatas, MaxProps)]
    /\ result = Pending

\* get_database_content from the two 200 responses on.
DatabaseReport ==
    /\ result = Pending
    /\ LET entries == [j \in 1..input.before |-> EntryObject] \o << Entry(input.props) >>
           did == get_database_content_did2(
                     [status |-> 200, text |-> "", body |-> ResultList(entries)],
                     DatabaseObject)
       IN result' = IF did[1].kind = "return" THEN Returned(did[1].value)
                    ELSE Raised(did[1].error)
    /\ UNCHANGED <<toolVars, input>>

DatabaseNext == DatabaseReport

DatabaseSpec == DatabaseInit /\ [][DatabaseNext]_vars

(***************************************************************************)
(* The claims.                                                             *)
(***************************************************************************)
\* s ends with suffix / s contains part, for TLA+ strings.
EndsWith(s, suffix) ==
    /\ Len(suffix) <= Len(s)
    /\ SubSeq(s, Len(s) - Len(suffix) + 1, Len(s)) = suffix

Contains(s, part) ==
    \E j \in 1..(Len(s) - Len(part) + 1) : SubSeq(s, j, j + Len(part) - 1) = part

Kinds(ev) == [k \in 1..Len(ev) |-> ev[k].kind]
HttpCount(ev) == Cardinality({k \in 1..Len(ev) : ev[k].kind = "http"})
NoCredential(key) == key = Null \/ key = Str("")
ToolNames ==
    {"search_notion_pages", "get_page_content", "get_database_content", "get_block_children"}

\* C1: whichever of the four tools is called, when the environment holds no
\* credential at the call, the invocation consists of the check, the error
\* signalled through the context, and the raise, in that order: it issues no
\* HTTP request.
C1_MissingCredentialAbortsBeforeNetwork ==
    \A i \in Invocations :
        (Len(events[i]) >= 2 /\ NoCredential(events[i][2].key)) =>
            /\ tool[i] \in ToolNames
            /\ Kinds(events[i]) = <<"call", "check", "ctx.error", "raise">>
            /\ events[i][3].message = CredentialMessage
            /\ HttpCount(events[i]) = 0
            /\ pc[i] = "done"

\* get_page_content was called with an empty credential in the environment
\* and has raised without a request.
C1_Witness ==
    \E i \in Invocations :
        /\ tool[i] = "get_page_content"
        /\ Len(events[i]) = 4
        /\ events[i][2].key = Str("")
        /\ events[i][4].kind = "raise"

\* C2 (as claimed): after a response whose status is not 2xx the invocation
\* ends at once by returning a string that embeds the status code and the
\* body text, whatever the body is.
C2_Non2xxReturnsErrorString ==
    \A i \in Invocations : \A k \in 1..Len(events[i]) :
        LET ev == events[i]
        IN (ev[k].kind = "response" /\ ev[k].status \notin 200..299) =>
              /\ Len(ev) = k + 1
              /\ ev[k + 1].kind = "return"
              /\ Contains(ev[k + 1].value, ToString(ev[k].status))
              /\ Contains(ev[k + 1].value, ev[k].text)

IsHttp(e, method, url) == e.kind = "http" /\ e.method = method /\ e.url = url

\* C3: get_page_content and get_database_content issue the metadata request
\* first; the second request (block children, database query) is issued only
\* right after the metadata response, and only when that response has status
\* 200; after a failed metadata response no request follows.
C3_SecondCallOnlyAfterMetadataSucceeds ==
    \A i \in Invocations :
        tool[i] \in {"get_page_content", "get_database_content"} =>
            LET ev == events[i]
                page == tool[i] = "get_page_content"
            IN /\ HttpCount(ev) <= 2
               /\ \A k \in 1..Len(ev) :
                    ev[k].kind = "http" =>
                        \/ /\ k = 3
                           /\ IF page
                              THEN IsHttp(ev[k], "GET", "https://api.notion.com/v1/pages/p1")
                              ELSE IsHttp(ev[k], "GET", "https://api.notion.com/v1/databases/d1")
                        \/ /\ k = 5
                           /\ ev[3].kind = "http"
                           /\ ev[4].kind = "response" /\ ev[4].status = 200
                           /\ IF page
                              THEN IsHttp(ev[k], "GET",
                                          "https://api.notion.com/v1/blocks/p1/children")
                              ELSE IsHttp(ev[k], "POST",
                                          "https://api.notion.com/v1/databases/d1/query")
               /\ \A k \in 1..Len(ev) :
                    (ev[k].kind = "response" /\ ev[k].status # 200) =>
                        \A m \in (k + 1)..Len(ev) : ev[m].kind # "http"

\* get_page_content got 404 for the metadata and ended after its one request.
C3_Witness ==
    \E i \in Invocations :
        /\ tool[i] = "get_page_content"
        /\ pc[i] = "done"
        /\ Len(events[i]) = 5
        /\ events[i][4].kind = "response" /\ events[i][4].status = 404
        /\ HttpCount(events[i]) = 1

\* C10 (as claimed): every request of an invocation carries, as its bearer
\* token, the non-empty token that the invocation's own check read.
C10_RequestsCarryOwnToken ==
    \A i \in Invocations : \A k \in 1..Len(events[i]) :
        LET ev == events[i]
        IN ev[k].kind = "http" =>
              /\ ev[2].kind = "check"
              /\ ev[2].key.t = "str" /\ ev[2].key.v # ""
              /\ Item(ev[k].headers, "Authorization") = Str("Bearer " \o ev[2].key.v)

SearchRequests ==
    {k \in 1..Len(events["inv1"]) : events["inv1"][k].kind = "http"}
Requested == events["inv1"][1].args
Payload(k) == events["inv1"][k].json

\* C4 (as claimed): the payload search_notion_pages sends carries
\* page_size = min(requested, 100), for every requested page_size.
C4_PageSizeAlwaysSent ==
    \A k \in SearchRequests :
        /\ Has(Payload(k), "page_size")
        /\ Item(Payload(k), "page_size") =
              Num(IF Requested.page_size.v < 100 THEN Requested.page_size.v ELSE 100)

\* C4 (amended): for every requested page_size other than 0 the payload carries
\* page_size = min(requested, 100), so never more than 100; for a requested
\* page_size of 0 the payload carries no page_size.
C4_PageSizeClamped ==
    \A k \in SearchRequests :
        IF Requested.page_size.v = 0
        THEN ~Has(Payload(k), "page_size")
        ELSE /\ Has(Payload(k), "page_size")
             /\ Item(Payload(k), "page_size") =
                   Num(IF Requested.page_size.v < 100 THEN Requested.page_size.v ELSE 100)
             /\ Item(Payload(k), "page_size").v <= 100

\* A page_size of 500 was requested and 100 was sent.
C4_Witness ==
    \E k \in SearchRequests :
        /\ Requested.page_size = Num(500)
        /\ Has(Payload(k), "page_size")
        /\ Item(Payload(k), "page_size") = Num(100)

\* C5: the payload has the object filter exactly when filter_type is "page" or
\* "database" (then with that value), and it always has the sort by
\* last_edited_time, descending; no other filter_type is an error.
C5_FilterOnlyForPageOrDatabase ==
    /\ \A k \in SearchRequests :
          /\ Has(Payload(k), "filter") <=>
                Requested.filter_type \in {Str("page"), Str("database")}
          /\ Has(Payload(k), "filter") =>
                /\ get(Item(Payload(k), "filter"), "value", Null) = Requested.filter_type
                /\ get(Item(Payload(k), "filter"), "property", Null) = Str("object")
          /\ Has(Payload(k), "sort")
          /\ get(Item(Payload(k), "sort"), "timestamp", Null) = Str("last_edited_time")
          /\ get(Item(Payload(k), "sort"), "direction", Null) = Str("descending")
    /\ (Len(events["inv1"]) >= 2 /\ ~NoCredential(events["inv1"][2].key)) =>
          events["inv1"][3].kind = "http"

\* The filter_type "block" was requested and the payload went out without a
\* filter.
C5_Witness ==
    \E k \in SearchRequests :
        /\ Requested.filter_type = Str("block")
        /\ ~Has(Payload(k), "filter")
        /\ Has(Payload(k), "sort")

\* C6 (as claimed): format_block raises for no block whose expected sub-fields
\* are missing or null; it returns a string.
C6_FormatBlockNeverRaises ==
    result # Pending => result.state = "returned"

HasChildrenTrue(block) ==
    Has(block, "has_children") /\ Item(block, "has_children") = Bool(TRUE)

\* The block is rendered as the unsupported-type placeholder: its type is
\* absent, null or empty, or the key named by its type is missing.
IsPlaceholderCase(block) ==
    \/ ~Has(block, "type")
    \/ Item(block, "type") \in {Null, Str("")}
    \/ ~Has(block, Item(block, "type").v)

NonEmpty(line) == line # ""
Renderings(blocks) == [j \in 1..Len(blocks) |-> format_block(blocks[j], 0)]
ContentHeading == "\n## Content:\n"

\* C8 (as claimed): on success the report holds the rendering of every child
\* block, one per block, in the order of the answer, empty renderings
\* included.
C8_OneRenderingPerBlock ==
    result.state = "returned" =>
        IF input.fn = "get_page_content"
        THEN EndsWith(result.value,
                      JoinStr(<< ContentHeading >> \o Renderings(input.blocks), "\n"))
        ELSE Len(input.blocks) > 0 =>
                result.value = JoinStr(Renderings(input.blocks), "\n")

\* C8 (amended): on success the report holds the rendering of every child
\* block whose rendering is not the empty string, once each and in the order
\* of the answer; a block whose rendering is empty is left out.
C8_OneRenderingPerNonEmptyBlock ==
    result.state = "returned" =>
        LET kept == SelectSeq(Renderings(input.blocks), NonEmpty)
        IN IF input.fn = "get_page_content"
           THEN EndsWith(result.value, JoinStr(<< ContentHeading >> \o kept, "\n"))
           ELSE Len(input.blocks) > 0 => result.value = JoinStr(kept, "\n")

\* get_page_content has reported three children, the second an empty
\* paragraph, between two blocks that render differently.
C8_Witness ==
    /\ result.state = "returned"
    /\ input.fn = "get_page_content"
    /\ input.blocks = <<ToggleBlock, EmptyParagraph, CodeBlock>>
    /\ Contains(result.value, "More")
    /\ Contains(result.value, "print(1)")

KnownPropTypes ==
    {"title", "rich_text", "number", "select", "multi_select", "date", "checkbox",
     "url", "email", "phone_number"}

\* The value the claim gives a property.
ClaimedValue(prop_data) ==
    LET ty == get(prop_data, "type", Null)
    IN IF ty.t # "str" \/ ty.v \notin KnownPropTypes THEN "N/A"
       ELSE IF ~Has(prop_data, ty.v) \/ Item(prop_data, ty.v) = Null THEN "N/A"
       ELSE LET x == Item(prop_data, ty.v)
            IN CASE ty.v = "number" -> ToString(x.v)
                 [] ty.v = "multi_select" ->
                      JoinStr([j \in 1..Len(x.v) |-> Item(x.v[j], "name").v], ", ")
                 [] ty.v = "date" ->
                      Item(x, "start").v \o
                      (IF Has(x, "end") /\ Item(x, "end") # Null
                       THEN " to " \o Item(x, "end").v ELSE "")
                 [] OTHER -> "N/A"

\* C9 (as claimed): get_database_content writes one line for every property
\* of every entry, with "N/A" for a value that is missing or null or of an
\* unknown type, a number as its literal, a multi_select as its names joined
\* by ", ", a date as its start, then " to <end>" when it has an end.
C9_EveryPropertyOneLine ==
    result # Pending =>
        /\ result.state = "returned"
        /\ EndsWith(result.value,
                    JoinStr(<< "URL: http://n/e2" >> \o
                            [j \in 1..Len(input.props) |->
                                "- " \o PropNames[j] \o ": "
                                     \o ClaimedValue(input.props[j])], "\n"))

====
